---------------------------- MODULE Spec2Model ----------------------------
(***************************************************************************)
(* Model of the article-generation route of airticles                      *)
(* (src/unnamed/part_002, the GET handler of /api/generate-article) and of *)
(* the files it works on: posts.json (input) and articles.json (store).    *)
(*                                                                         *)
(* Node runs a handler without interruption until it awaits, so one action *)
(* is one run of the handler between two awaits:                           *)
(*   Start    request arrives; parse parameters, read both files, filter,  *)
(*            slice, short-circuit or issue the first generation call      *)
(*   GenOk    a generation call resolves; push the article, then issue the *)
(*            next call or combine, write articles.json and respond        *)
(*   GenFail  a generation call rejects; the catch block responds 500      *)
(*   Finish   the response is delivered and the invocation is gone         *)
(* The environment edits posts.json while no invocation is alive          *)
(* (EditPosts); the handler reads the file only in Start.                  *)
(*                                                                         *)
(* The generation service answers every call with a new text and time      *)
(* passes during a call: the n-th completion carries the text n and the    *)
(* article built from it the timestamp n.                                  *)
(*                                                                         *)
(* articles.json is written by the handler alone, so it always parses; a  *)
(* throwing readPostsFile or writeArticlesFile (the file system failing)   *)
(* is outside the model.  SpecFormat runs formatPostData alone, on every   *)
(* post with up to MaxComments comments of up to MaxReplies replies each.  *)
(*                                                                         *)
(* SpecSerial is the handler called by one client at a time, never with    *)
(* force; SpecFixed is the handler called in any overlap, with or without  *)
(* force, over a posts.json that stays as it is and whose posts have       *)
(* distinct titles.                                                        *)
(***************************************************************************)
EXTENDS Integers, Sequences, FiniteSets, TLC

\* ---------------------------------------------------------------- bounds
MaxPosts == 2
MaxNumPosts == 2
MaxCompletions == 2
MaxComments == 6
MaxReplies == 3
MaxFixedPosts == 3

\* ------------------------------------------------------ program constants
DefaultNumPosts == 3
CommentLimit == 5
ReplyLimit == 2
ServerError == 500

Requests == {"r1", "r2"}

\* A field that the JSON document does not have.
Undefined == "<undefined>"

\* ------------------------------------------------------------ JS helpers
\* x || d
OrDefault(x, d) == IF x = Undefined \/ x = "" THEN d ELSE x

\* destructuring default: { x = d } = obj
DestructDefault(x, d) == IF x = Undefined THEN d ELSE x

\* truthiness of an optional string field
Truthy(x) == x # Undefined /\ x # ""

Min(a, b) == IF a < b THEN a ELSE b
Max(a, b) == IF a < b THEN b ELSE a

\* Array.prototype.slice(0, n)
Slice(s, n) ==
  LET end == IF n < 0 THEN Max(Len(s) + n, 0) ELSE Min(n, Len(s))
  IN  SubSeq(s, 1, end)

RECURSIVE Filter(_, _)
\* Array.prototype.filter, with the kept elements given as the set of
\* values that pass
Filter(s, keep) ==
  IF s = <<>> THEN <<>>
  ELSE IF Head(s) \in keep THEN <<Head(s)>> \o Filter(Tail(s), keep)
       ELSE Filter(Tail(s), keep)

Range(s) == {s[i] : i \in 1..Len(s)}

IsPrefix(s, t) == Len(s) <= Len(t) /\ SubSeq(t, 1, Len(s)) = s

RECURSIVE Flatten(_)
Flatten(ss) == IF ss = <<>> THEN <<>> ELSE Head(ss) \o Flatten(Tail(ss))

\* ------------------------------------------------------------ input data
Reply(t) == [text |-> t, replies |-> <<>>]

PostA ==
  [title |-> "A", author |-> "ann", text |-> "body A",
   comments |-> <<[text |-> "c1", replies |-> <<Reply("c1r1")>>]>>]

PostU ==
  [title |-> Undefined, author |-> Undefined, text |-> "body U",
   comments |-> <<>>]

PostKinds == {PostA, PostU}

PostSeqs == UNION {[1..n -> PostKinds] : n \in 0..MaxPosts}

\* posts.json holds one object or an array
PostsDocs ==
  {[isArray |-> FALSE, items |-> <<p>>] : p \in PostKinds}
    \cup {[isArray |-> TRUE, items |-> s] : s \in PostSeqs}

\* Posts for the formatter: c comments, comment i with replies[i] replies,
\* every reply with one reply nested below it.
CommentText(i) == "c" \o ToString(i)

ReplyText(i, j) == CommentText(i) \o "r" \o ToString(j)

NestedReply(i, j) == [text |-> ReplyText(i, j) \o "n", replies |-> <<>>]

FormatPost(c, replies) ==
  [title |-> "T", author |-> "ann", text |-> "body",
   comments |->
     [i \in 1..c |->
        [text |-> CommentText(i),
         replies |->
           [j \in 1..replies[i] |->
              [text |-> ReplyText(i, j),
               replies |-> <<NestedReply(i, j)>>]]]]]

NumPostsParams ==
  {[given |-> FALSE, value |-> 0]}
    \cup {[given |-> TRUE, value |-> v] : v \in (0 - 1)..MaxNumPosts}

ForceParams == {Undefined, "true", "1"}

\* ------------------------------------------------------------- formatter
TopCommentsUnbounded(comments) == comments

TopComments(comments) == Slice(comments, CommentLimit)

TopReplies(replies) == Slice(replies, ReplyLimit)

ReplyLine(reply) ==
  <<"> Reply: ", OrDefault(reply.text, ""), "\n\n">>

CommentBlock(comment) ==
  <<"**Comment by ", IF Truthy(comment.text) THEN "user" ELSE "unknown",
    "**:\n", OrDefault(comment.text, ""), "\n\n">>
    \o (IF Len(comment.replies) > 0
        THEN Flatten([j \in 1..Len(TopReplies(comment.replies)) |->
                        ReplyLine(TopReplies(comment.replies)[j])])
        ELSE <<>>)

\* The formatted text, as the sequence of the pieces the code concatenates.
formatPostData(post) ==
  LET title == DestructDefault(post.title, "")
      author == DestructDefault(post.author, "")
      text == DestructDefault(post.text, "")
      comments == post.comments
  IN  <<"# ", title, "\n\n**Posted by ", author, "**\n\n", text, "\n\n">>
        \o (IF Len(comments) > 0
            THEN <<"## Top Comments\n\n">>
                   \o Flatten([i \in 1..Len(TopComments(comments)) |->
                                 CommentBlock(TopComments(comments)[i])])
            ELSE <<>>)

\* -------------------------------------------------------------- handler
ParseNumPosts(param) == IF param.given THEN param.value ELSE DefaultNumPosts

ParseForce(param) == param = "true"

\* posts.json as the list of posts the handler works on
NormalizePosts(doc) ==
  IF ~doc.isArray /\ Truthy(doc.items[1].title) THEN <<doc.items[1]>>
  ELSE IF ~doc.isArray /\ Truthy(doc.items[1].text) THEN <<doc.items[1]>>
  ELSE IF doc.isArray THEN doc.items
  ELSE <<doc.items[1]>>

ResolveTitle(post) == OrDefault(post.title, "Untitled Post")

ResolveAuthorAsTitle(post) == OrDefault(post.author, "Untitled Post")

ResolveAuthor(post) == OrDefault(post.author, "Unknown Author")

LoadExistingAlways(file, forceRegenerate) ==
  IF file.exists THEN file.articles ELSE <<>>

\* articles.json as the handler loads it
LoadExisting(file, forceRegenerate) ==
  IF file.exists /\ ~forceRegenerate THEN file.articles ELSE <<>>

ProcessedTitles(existingArticles) ==
  {existingArticles[i].originalTitle : i \in 1..Len(existingArticles)}

IsUnprocessedAlways(post, processedTitles) == TRUE

IsUnprocessedRawTitle(post, processedTitles) ==
  post.title \notin processedTitles

\* the filter's predicate: !processedTitles.has(post.title || 'Untitled Post')
IsUnprocessed(post, processedTitles) ==
  ResolveTitle(post) \notin processedTitles

UnprocessedPosts(posts, existingArticles) ==
  Filter(posts,
         {p \in Range(posts) :
            IsUnprocessed(p, ProcessedTitles(existingArticles))})

PostsToProcessLast(unprocessedPosts, numPosts) ==
  IF numPosts <= 0 THEN Slice(unprocessedPosts, numPosts)
  ELSE SubSeq(unprocessedPosts,
              Len(unprocessedPosts) - Min(numPosts, Len(unprocessedPosts)) + 1,
              Len(unprocessedPosts))

PostsToProcessOneMore(unprocessedPosts, numPosts) ==
  Slice(unprocessedPosts, numPosts + 1)

PostsToProcess(unprocessedPosts, numPosts) == Slice(unprocessedPosts, numPosts)

NewArticle(post, article, time) ==
  [originalTitle |-> ResolveTitle(post),
   originalAuthor |-> ResolveAuthor(post),
   generatedArticle |-> article,
   timestamp |-> time]

AllArticlesNewFirst(existingArticles, newArticles) ==
  newArticles \o existingArticles

AllArticles(existingArticles, newArticles) == existingArticles \o newArticles

WrittenFileAppended(file, articles) ==
  [exists |-> TRUE, articles |-> file.articles \o articles]

\* what writeArticlesFile leaves in articles.json
WrittenFile(file, articles) == [exists |-> TRUE, articles |-> articles]

FileAfterCatchPartial(file, me) ==
  IF me.newArticles = <<>> THEN file
  ELSE [exists |-> TRUE,
        articles |-> me.existingArticles \o me.newArticles]

\* articles.json after the catch block: it writes nothing
FileAfterCatch(file, me) == file

\* the call the handler makes to the generation service for a post
GenerateCall(post) == [post |-> post, postData |-> formatPostData(post)]

NoResponse ==
  [success |-> FALSE, status |-> 0, message |-> "",
   generated |-> 0, total |-> 0, hasArticles |-> FALSE, articles |-> <<>>]

NothingNewResponse(existingArticles) ==
  [success |-> TRUE, status |-> 200,
   message |-> "No new posts to process",
   generated |-> 0, total |-> Len(existingArticles),
   hasArticles |-> TRUE, articles |-> existingArticles]

GeneratedResponse(newArticles, allArticles) ==
  [success |-> TRUE, status |-> 200,
   message |-> "Generated new articles",
   generated |-> Len(newArticles), total |-> Len(allArticles),
   hasArticles |-> TRUE, articles |-> allArticles]

ErrorResponse ==
  [success |-> FALSE, status |-> ServerError,
   message |-> "Failed to generate article",
   generated |-> 0, total |-> 0, hasArticles |-> FALSE, articles |-> <<>>]

IdleRequest ==
  [pc |-> "idle", numPosts |-> 0, forceRegenerate |-> FALSE,
   existingArticles |-> <<>>,
   postsToProcess |-> <<>>, newArticles |-> <<>>, calls |-> <<>>,
   response |-> NoResponse]

VARIABLES postsFile, articlesFile, completions, req, fmtPost, fmtOut

vars == <<postsFile, articlesFile, completions, req, fmtPost, fmtOut>>

NoFile == [exists |-> FALSE, articles |-> <<>>]

Init ==
  /\ postsFile \in PostsDocs
  /\ articlesFile = NoFile
  /\ completions = 0
  /\ req = [r \in Requests |-> IdleRequest]
  /\ fmtPost = PostU
  /\ fmtOut = <<>>

Start(r, numPostsParam, forceParam) ==
  LET numPosts == ParseNumPosts(numPostsParam)
      forceRegenerate == ParseForce(forceParam)
      posts == NormalizePosts(postsFile)
      existingArticles == LoadExisting(articlesFile, forceRegenerate)
      unprocessedPosts == UnprocessedPosts(posts, existingArticles)
      postsToProcess == PostsToProcess(unprocessedPosts, numPosts)
      locals == [IdleRequest EXCEPT !.numPosts = numPosts,
                                    !.forceRegenerate = forceRegenerate,
                                    !.existingArticles = existingArticles,
                                    !.postsToProcess = postsToProcess]
  IN  /\ req[r].pc = "idle"
      /\ req' = [req EXCEPT ![r] =
                   IF Len(postsToProcess) = 0
                   THEN [locals EXCEPT
                           !.pc = "done",
                           !.response = NothingNewResponse(existingArticles)]
                   ELSE [locals EXCEPT
                           !.pc = "await",
                           !.calls = <<GenerateCall(postsToProcess[1])>>]]
      /\ UNCHANGED <<postsFile, articlesFile, completions, fmtPost, fmtOut>>

GenOk(r) ==
  LET me == req[r]
      post == me.postsToProcess[Len(me.newArticles) + 1]
      article == completions + 1
      newArticles ==
        Append(me.newArticles, NewArticle(post, article, completions + 1))
      allArticles == AllArticles(me.existingArticles, newArticles)
  IN  /\ me.pc = "await"
      /\ completions < MaxCompletions
      /\ completions' = completions + 1
      /\ IF Len(newArticles) < Len(me.postsToProcess)
         THEN /\ req' = [req EXCEPT ![r] =
                           [me EXCEPT
                              !.newArticles = newArticles,
                              !.calls = Append(me.calls,
                                 GenerateCall(
                                   me.postsToProcess[Len(newArticles) + 1]))]]
              /\ UNCHANGED articlesFile
         ELSE /\ articlesFile' = WrittenFile(articlesFile, allArticles)
              /\ req' = [req EXCEPT ![r] =
                           [me EXCEPT
                              !.pc = "done",
                              !.newArticles = newArticles,
                              !.response =
                                 GeneratedResponse(newArticles, allArticles)]]
      /\ UNCHANGED <<postsFile, fmtPost, fmtOut>>

GenFail(r) ==
  /\ req[r].pc = "await"
  /\ req' = [req EXCEPT ![r] = [@ EXCEPT !.pc = "done",
                                         !.response = ErrorResponse]]
  /\ articlesFile' = FileAfterCatch(articlesFile, req[r])
  /\ UNCHANGED <<postsFile, completions, fmtPost, fmtOut>>

Finish(r) ==
  /\ req[r].pc = "done"
  /\ req' = [req EXCEPT ![r] = IdleRequest]
  /\ UNCHANGED <<postsFile, articlesFile, completions, fmtPost, fmtOut>>

EditPosts(doc) ==
  /\ doc # postsFile
  /\ \A r \in Requests : req[r].pc = "idle"
  /\ postsFile' = doc
  /\ UNCHANGED <<articlesFile, completions, req, fmtPost, fmtOut>>

Next ==
  \/ \E r \in Requests, n \in NumPostsParams, f \in ForceParams : Start(r, n, f)
  \/ \E r \in Requests : GenOk(r)
  \/ \E r \in Requests : GenFail(r)
  \/ \E r \in Requests : Finish(r)
  \/ \E doc \in PostsDocs : EditPosts(doc)

Spec == Init /\ [][Next]_vars

\* ------------------------------------------------- the formatter alone
InitFormat ==
  /\ postsFile = [isArray |-> TRUE, items |-> <<>>]
  /\ articlesFile = NoFile
  /\ completions = 0
  /\ req = [r \in Requests |-> IdleRequest]
  /\ \E c \in 0..MaxComments :
       \E replies \in [1..c -> 0..MaxReplies] :
         fmtPost = FormatPost(c, replies)
  /\ fmtOut = <<>>

Format ==
  /\ fmtOut = <<>>
  /\ fmtOut' = formatPostData(fmtPost)
  /\ UNCHANGED <<postsFile, articlesFile, completions, req, fmtPost>>

NextFormat == Format

SpecFormat == InitFormat /\ [][NextFormat]_vars


\* =====================================================================
\* Properties
\* =====================================================================
\* the persisted collection, as a reader of articles.json sees it
Load(file) == IF file.exists THEN file.articles ELSE <<>>

\* the steps of a request
Starts(r) == req[r].pc = "idle" /\ req'[r].pc # "idle"

Writes(r) ==
  req[r].pc = "await" /\ req'[r].pc = "done" /\ req'[r].response.success

Fails(r) ==
  req[r].pc = "await" /\ req'[r].pc = "done" /\ ~req'[r].response.success

Succeeded(r) == req[r].pc = "done" /\ req[r].response.success

Titles(articles) == {articles[i].originalTitle : i \in 1..Len(articles)}

Count(title, articles) ==
  Cardinality({i \in 1..Len(articles) : articles[i].originalTitle = title})

\* the title a post is known by: its title, "Untitled Post" when it has none
ClaimedTitle(post) ==
  IF post.title = Undefined THEN "Untitled Post" ELSE post.title

\* the posts of the input whose title is not among `titles`, in input order
RECURSIVE NotIn(_, _)
NotIn(posts, titles) ==
  IF Len(posts) = 0 THEN <<>>
  ELSE LET rest == NotIn(SubSeq(posts, 1, Len(posts) - 1), titles)
           last == posts[Len(posts)]
       IN  IF ClaimedTitle(last) \in titles THEN rest ELSE Append(rest, last)

\* posts.json as a sequence of posts (one object is a one-post sequence)
InputPosts == postsFile.items

\* ---------------------------------------------------------------- C1
\* r2 is called right after r1 has returned: r1 succeeded without force
\* with a positive numPosts, the store holds what r1 returned, and r2
\* arrives with the same numPosts and without force.  (posts.json cannot
\* have changed in between: it is edited only while no invocation is alive.)
InSuccession(r1, r2) ==
  /\ r1 # r2
  /\ Succeeded(r1)
  /\ ~req[r1].forceRegenerate
  /\ req[r1].numPosts > 0
  /\ Load(articlesFile) = req[r1].response.articles
  /\ Starts(r2)
  /\ ~req'[r2].forceRegenerate
  /\ req'[r2].numPosts = req[r1].numPosts

SecondIsNoop(r1, r2) ==
  /\ req'[r2].pc = "done"
  /\ req'[r2].response.success
  /\ req'[r2].response.generated = 0
  /\ req'[r2].calls = <<>>
  /\ req'[r2].response.articles = req[r1].response.articles
  /\ articlesFile' = articlesFile

\* C1 as stated: a second call in succession with the same numPosts
\* reports zero new articles and returns the first call's collection,
\* leaving the store as it is.
C1_Idempotent ==
  [][\A r1, r2 \in Requests :
       InSuccession(r1, r2) => SecondIsNoop(r1, r2)]_vars

\* the first call selected every unprocessed post it found
FirstCallLeftNone(r1) ==
  Len(NotIn(InputPosts, Titles(req[r1].existingArticles)))
    <= req[r1].numPosts

\* C1 amended: the second call in succession is a no-op returning the first
\* call's collection, provided the first call found at most numPosts
\* unprocessed posts.
C1_IdempotentOnceExhausted ==
  [][\A r1, r2 \in Requests :
       (InSuccession(r1, r2) /\ FirstCallLeftNone(r1))
         => SecondIsNoop(r1, r2)]_vars

\* C1 witness: two calls in succession, the first generating every unprocessed post, the second a no-op.
C1_Witness ==
  \E r1, r2 \in Requests :
    /\ r1 # r2
    /\ Succeeded(r1) /\ Succeeded(r2)
    /\ ~req[r1].forceRegenerate /\ ~req[r2].forceRegenerate
    /\ req[r1].numPosts > 0 /\ req[r2].numPosts = req[r1].numPosts
    /\ req[r1].response.generated > 0
    /\ FirstCallLeftNone(r1)
    /\ req[r2].existingArticles = req[r1].response.articles
    /\ req[r2].response.generated = 0
    /\ req[r2].response.articles = req[r1].response.articles
    /\ Load(articlesFile) = req[r1].response.articles

\* ---------------------------------------------------------------- C2
\* the dedup of request r, in every state of the request
DedupHolds(r) ==
  \A X \in Titles(req[r].existingArticles) :
    /\ \A k \in 1..Len(req[r].calls) :
         ClaimedTitle(req[r].calls[k].post) # X
    /\ \A i \in 1..Len(req[r].newArticles) :
         req[r].newArticles[i].originalTitle # X
    /\ req[r].response.hasArticles =>
         Count(X, req[r].response.articles)
           = Count(X, req[r].existingArticles)

\* C2: a request without force sends no post whose title is already in the
\* collection it read, and adds no entry with such a title to the
\* collection it returns and persists.
C2_Dedup ==
  [][\A r \in Requests :
       ~req'[r].forceRegenerate =>
         /\ DedupHolds(r)'
         /\ Writes(r) =>
              \A X \in Titles(req'[r].existingArticles) :
                Count(X, Load(articlesFile'))
                  = Count(X, req'[r].existingArticles)]_vars

\* C2 witness: a request has generated articles while posts.json holds a post already in the collection it read.
C2_Witness ==
  \E r \in Requests :
    /\ Succeeded(r)
    /\ ~req[r].forceRegenerate
    /\ req[r].response.generated > 0
    /\ \E i \in 1..Len(InputPosts) :
         ClaimedTitle(InputPosts[i]) \in Titles(req[r].existingArticles)
    /\ Load(articlesFile) = req[r].response.articles

\* ---------------------------------------------------------------- C3
\* C3 as stated: with no force request around, every write keeps the
\* persisted entries as an unchanged prefix.
C3_AppendOnly ==
  [][\A r \in Requests :
       (/\ Writes(r)
        /\ \A q \in Requests :
             req[q].pc # "idle" /\ ~req[q].forceRegenerate)
         => IsPrefix(Load(articlesFile), Load(articlesFile'))]_vars

\* C3 amended: a write by a request without force keeps the persisted
\* entries as an unchanged prefix when the store still holds what the
\* request read (no other request has written since its read).
C3_AppendOnlyUnlessOverlapped ==
  [][\A r \in Requests :
       (/\ Writes(r)
        /\ ~req[r].forceRegenerate
        /\ Load(articlesFile) = req[r].existingArticles)
         => /\ IsPrefix(Load(articlesFile), Load(articlesFile'))
            /\ Len(Load(articlesFile')) > Len(Load(articlesFile))]_vars

\* C3 witness: a request without force has appended new articles after the entries it read.
C3_Witness ==
  \E r \in Requests :
    /\ Succeeded(r)
    /\ ~req[r].forceRegenerate
    /\ req[r].existingArticles # <<>>
    /\ req[r].newArticles # <<>>
    /\ Load(articlesFile) = req[r].existingArticles \o req[r].newArticles

\* ---------------------------------------------------------------- C4
\* C4 as stated: a force request builds on the persisted entries: what it
\* appends to is the persisted collection, and what it persists and returns
\* is that collection followed by the regenerated articles.
C4_ForceCombines ==
  [][\A r \in Requests :
       /\ (Starts(r) /\ req'[r].forceRegenerate /\ req'[r].pc = "await")
            => req'[r].existingArticles = Load(articlesFile)
       /\ (Writes(r) /\ req[r].forceRegenerate)
            => /\ Load(articlesFile')
                   = req[r].existingArticles \o req'[r].newArticles
               /\ req'[r].response.articles = Load(articlesFile')]_vars

\* C4 amended: a force request ignores the persisted collection, selects
\* the first numPosts posts whether or not they have an entry, and
\* persists and returns the regenerated articles alone; the entries
\* persisted before are dropped.
C4_ForceReplaces ==
  [][\A r \in Requests :
       /\ (Starts(r) /\ req'[r].forceRegenerate)
            => /\ req'[r].existingArticles = <<>>
               /\ req'[r].postsToProcess
                    = Slice(InputPosts, req'[r].numPosts)
       /\ (Writes(r) /\ req[r].forceRegenerate)
            => /\ Load(articlesFile') = req'[r].newArticles
               /\ req'[r].response.articles = req'[r].newArticles
               /\ \A i \in 1..Len(req'[r].newArticles) :
                    req'[r].newArticles[i].originalTitle
                      = ClaimedTitle(req[r].postsToProcess[i])]_vars

\* C4 witness: a force request has replaced a persisted article by a regenerated one of the same title.
C4_Witness ==
  \E r, q \in Requests :
    /\ r # q
    /\ Succeeded(r) /\ req[r].forceRegenerate
    /\ Succeeded(q)
    /\ Load(articlesFile) = req[r].newArticles
    /\ \E i \in 1..Len(req[q].response.articles),
          j \in 1..Len(req[r].newArticles) :
         LET old == req[q].response.articles[i]
             new == req[r].newArticles[j]
         IN  /\ old.originalTitle = new.originalTitle
             /\ old.timestamp < new.timestamp
             /\ old \notin Range(Load(articlesFile))

\* ---------------------------------------------------------------- C5
\* C5: a write puts in the store what the writing request read followed by
\* what it generated, whatever the store holds by then, so the last write
\* decides the content (the witness is the lost update).
C5_LastWriteWins ==
  [][\A r \in Requests :
       Writes(r) =>
         /\ articlesFile'.exists
         /\ articlesFile'.articles
              = req[r].existingArticles \o req'[r].newArticles
         /\ req'[r].response.articles = articlesFile'.articles]_vars

\* C5 witness: two overlapping requests have both written, and an article the first returned is not in the store.
C5_Witness ==
  \E r1, r2 \in Requests :
    /\ r1 # r2
    /\ Succeeded(r1) /\ Succeeded(r2)
    /\ ~req[r1].forceRegenerate /\ ~req[r2].forceRegenerate
    /\ req[r1].existingArticles = <<>> /\ req[r2].existingArticles = <<>>
    /\ req[r1].newArticles # <<>> /\ req[r2].newArticles # <<>>
    /\ Load(articlesFile) = req[r2].response.articles
    /\ \E i \in 1..Len(req[r1].response.articles) :
         req[r1].response.articles[i] \notin Range(Load(articlesFile))

\* ---------------------------------------------------------------- C6
\* a request that has failed at its k-th call
FailedState(r) ==
  LET me == req[r]
      k == Len(me.calls)
  IN  /\ me.response.status = 500
      /\ ~me.response.hasArticles
      /\ me.response.articles = <<>>
      /\ k = Len(me.newArticles) + 1
      /\ k <= Len(me.postsToProcess)
      /\ \A i \in 1..k : me.calls[i].post = me.postsToProcess[i]
      /\ \A i \in 1..Len(me.newArticles) :
           me.newArticles[i] \notin Range(Load(articlesFile))

\* C6: when the generation service fails for the k-th selected post, the
\* request sends no later post, writes nothing (only a successful
\* completion changes the store, and the k-1 articles of the batch are not
\* in it) and answers success:false with status 500 and no articles.
C6_FailureAborts ==
  [][\A r \in Requests :
       /\ Fails(r) =>
            /\ articlesFile' = articlesFile
            /\ req'[r].calls = req[r].calls
            /\ req'[r].newArticles = req[r].newArticles
       /\ (req'[r].pc = "done" /\ ~req'[r].response.success)
            => FailedState(r)'
       /\ (req'[r] # req[r] /\ ~Writes(r)) => articlesFile' = articlesFile]_vars

\* C6 witness: one request failed at its second call after one article, another at the first of two calls; nothing is written.
C6_Witness ==
  \E r1, r2 \in Requests :
    /\ req[r1].pc = "done" /\ ~req[r1].response.success
    /\ Len(req[r1].postsToProcess) = 2
    /\ Len(req[r1].newArticles) = 1
    /\ req[r2].pc = "done" /\ ~req[r2].response.success
    /\ Len(req[r2].postsToProcess) = 2
    /\ Len(req[r2].calls) = 1
    /\ ~articlesFile.exists

\* ---------------------------------------------------------------- C7
\* the selection of request r, in every state of the request
SelectionHolds(r) ==
  LET me == req[r]
      u == NotIn(InputPosts, Titles(me.existingArticles))
      n == Min(me.numPosts, Len(u))
      done == Len(me.newArticles)
  IN  (me.pc # "idle" /\ me.numPosts > 0) =>
        /\ me.postsToProcess = SubSeq(u, 1, n)
        /\ Len(me.calls) <= done + 1
        /\ me.pc = "await" => Len(me.calls) = done + 1
        /\ \A k \in 1..Len(me.calls) : me.calls[k].post = u[k]
        /\ \A i \in 1..done :
             me.newArticles[i].originalTitle = ClaimedTitle(u[i])
        /\ \A i, j \in 1..done :
             i < j => me.newArticles[i].timestamp < me.newArticles[j].timestamp
        /\ (me.pc = "done" /\ me.response.success) =>
             /\ done = n
             /\ Len(me.calls) = n
             /\ me.response.generated = n
             /\ me.response.articles = me.existingArticles \o me.newArticles

\* C7: a request with positive numPosts selects the first min(numPosts, u)
\* posts whose title is not in the collection it read, calls the service
\* for them one at a time in input order, and on success returns and
\* writes the collection it read followed by the new articles in that
\* order, reporting min(numPosts, u) new articles.
C7_SelectionAndOrder ==
  [][\A r \in Requests :
       /\ SelectionHolds(r)'
       /\ (Writes(r) /\ req[r].numPosts > 0) =>
            Load(articlesFile')
              = req[r].existingArticles \o req'[r].newArticles]_vars

\* C7 witness: with two posts and numPosts = 1, a first request took the first post and a second request the next one.
C7_Witness ==
  \E r1, r2 \in Requests :
    /\ Succeeded(r1) /\ ~req[r1].forceRegenerate
    /\ req[r1].numPosts = 1
    /\ Len(InputPosts) = 2
    /\ req[r1].existingArticles = <<>>
    /\ req[r1].response.generated = 1
    /\ Succeeded(r2) /\ ~req[r2].forceRegenerate
    /\ req[r2].existingArticles = req[r1].response.articles
    /\ req[r2].response.generated = 1
    /\ Len(Load(articlesFile)) = 2

\* ---------------------------------------------------------------- C8
\* C8: a request that finds no unprocessed post calls the service for
\* nothing, leaves articles.json as it is and returns success:true with
\* the persisted collection and the nothing-new message.
C8_ShortCircuit ==
  [][\A r \in Requests :
       (/\ Starts(r)
        /\ NotIn(InputPosts, Titles(req'[r].existingArticles)) = <<>>)
         => /\ req'[r].pc = "done"
            /\ req'[r].calls = <<>>
            /\ articlesFile' = articlesFile
            /\ req'[r].response.success
            /\ req'[r].response.generated = 0
            /\ req'[r].response.message = "No new posts to process"
            /\ req'[r].response.articles = Load(articlesFile)]_vars

\* ---------------------------------------------------------------- C9
CountTokens(out, token) == Cardinality({k \in 1..Len(out) : out[k] = token})

\* the comment and reply texts of a formatted post, in the order shown
RECURSIVE ShownTexts(_, _)
ShownTexts(out, k) ==
  IF k > Len(out) THEN <<>>
  ELSE IF out[k] = "**Comment by " THEN <<out[k + 3]>> \o ShownTexts(out, k + 1)
  ELSE IF out[k] = "> Reply: " THEN <<out[k + 1]>> \o ShownTexts(out, k + 1)
  ELSE ShownTexts(out, k + 1)

\* the first `n` texts of a list of comments or replies
FirstTexts(items, n) == [i \in 1..Min(Len(items), n) |-> items[i].text]

RECURSIVE ExpectedTexts(_, _)
ExpectedTexts(comments, i) ==
  IF i > Min(Len(comments), 5) THEN <<>>
  ELSE <<comments[i].text>> \o FirstTexts(comments[i].replies, 2)
         \o ExpectedTexts(comments, i + 1)

\* C9: the formatted post has a Top Comments section iff the post has
\* comments, with one block for each of the first min(c, 5) comments in
\* order, block i followed by the lines of that comment's first
\* min(r_i, 2) replies in order, and no reply of a reply.
C9_BoundedFormat ==
  fmtOut # <<>> =>
    LET comments == fmtPost.comments
        c == Len(comments)
    IN  /\ (CountTokens(fmtOut, "## Top Comments\n\n") = 1) <=> (c > 0)
        /\ CountTokens(fmtOut, "## Top Comments\n\n") <= 1
        /\ CountTokens(fmtOut, "**Comment by ") = Min(c, 5)
        /\ ShownTexts(fmtOut, 1) = ExpectedTexts(comments, 1)
        /\ \A i \in 1..c : \A j \in 1..Len(comments[i].replies) :
             \A n \in 1..Len(comments[i].replies[j].replies) :
               comments[i].replies[j].replies[n].text \notin Range(fmtOut)

\* C9 witness: a post with more than 5 comments, the first 5 with more than 2 replies each, has been formatted.
C9_Witness ==
  /\ fmtOut # <<>>
  /\ Len(fmtPost.comments) > 5
  /\ \A i \in 1..5 : Len(fmtPost.comments[i].replies) > 2
  /\ CountTokens(fmtOut, "> Reply: ") = 10

\* --------------------------------------------------------------- C10
\* C10: an article for a post without title is recorded as "Untitled
\* Post", one for a post without author as "Unknown Author", and a post's
\* own non-empty title and author are recorded as they are.
C10_Defaults ==
  \A r \in Requests : \A i \in 1..Len(req[r].newArticles) :
    LET post == req[r].postsToProcess[i]
        a == req[r].newArticles[i]
    IN  /\ post.title = Undefined => a.originalTitle = "Untitled Post"
        /\ post.author = Undefined => a.originalAuthor = "Unknown Author"
        /\ post.title \notin {Undefined, ""} => a.originalTitle = post.title
        /\ post.author \notin {Undefined, ""}
             => a.originalAuthor = post.author

\* C10 witness: a request has recorded an article for a post without title and author and one for a post with both.
C10_Witness ==
  \E r \in Requests : \E i, j \in 1..Len(req[r].newArticles) :
    /\ req[r].postsToProcess[i].title = Undefined
    /\ req[r].postsToProcess[i].author = Undefined
    /\ req[r].postsToProcess[j].title = "A"
    /\ req[r].postsToProcess[j].author = "ann"
    /\ Load(articlesFile) = req[r].newArticles

\* =====================================================================
\* Requests one after the other, none with force
\* =====================================================================
\* numPosts parameters that parse to a positive number (absent parses to 3)
PositiveNumPosts == {p \in NumPostsParams : ParseNumPosts(p) > 0}

\* force parameters that leave forceRegenerate false
NoForceParams == {f \in ForceParams : ~ParseForce(f)}

\* a request that arrives while no other invocation is alive
StartAlone(r, numPostsParam, forceParam) ==
  /\ \A q \in Requests : req[q].pc = "idle"
  /\ Start(r, numPostsParam, forceParam)

NextSerial ==
  \/ \E r \in Requests, n \in PositiveNumPosts, f \in NoForceParams :
        StartAlone(r, n, f)
  \/ \E r \in Requests : GenOk(r)
  \/ \E r \in Requests : GenFail(r)
  \/ \E r \in Requests : Finish(r)
  \/ \E doc \in PostsDocs : EditPosts(doc)

SpecSerial == Init /\ [][NextSerial]_vars

\* ---------------------------------------------------------------- C11
\* C11 Title uniqueness of the store: starting from an absent collection,
\* after any sequence of non-overlapping generate requests without force
\* (positive numPosts each), articles.json never holds two entries with the
\* same originalTitle, also when posts.json holds several posts with the
\* same resolved title.  (Checked under SpecSerial.)
C11_TitleUniqueness ==
  \A i, j \in 1..Len(Load(articlesFile)) :
     i # j => Load(articlesFile)[i].originalTitle
                # Load(articlesFile)[j].originalTitle

\* =====================================================================
\* A posts.json that never changes and whose posts have distinct titles
\* =====================================================================
PostB ==
  [title |-> "B", author |-> Undefined, text |-> "body B",
   comments |-> <<>>]

FixedPostKinds == {PostA, PostB, PostU}

\* no two posts resolve to the same title
DistinctTitles(posts) ==
  \A i, j \in 1..Len(posts) :
     i # j => ResolveTitle(posts[i]) # ResolveTitle(posts[j])

FixedPostsDocs ==
  {[isArray |-> FALSE, items |-> <<p>>] : p \in FixedPostKinds}
    \cup {[isArray |-> TRUE, items |-> s] :
            s \in {t \in UNION {[1..n -> FixedPostKinds] :
                                   n \in 0..MaxFixedPosts} :
                     DistinctTitles(t)}}

InitFixed ==
  /\ postsFile \in FixedPostsDocs
  /\ articlesFile = NoFile
  /\ completions = 0
  /\ req = [r \in Requests |-> IdleRequest]
  /\ fmtPost = PostU
  /\ fmtOut = <<>>

\* requests may overlap and may force; posts.json is left alone
NextFixed ==
  \/ \E r \in Requests, n \in PositiveNumPosts, f \in ForceParams :
        Start(r, n, f)
  \/ \E r \in Requests : GenOk(r)
  \/ \E r \in Requests : GenFail(r)
  \/ \E r \in Requests : Finish(r)

SpecFixed == InitFixed /\ [][NextFixed]_vars

\* ---------------------------------------------------------------- C12
\* the originalTitle values of a collection, in order
TitleSeq(articles) == [i \in 1..Len(articles) |-> articles[i].originalTitle]

\* the titles the input posts are known by, in input order
InputTitles == [i \in 1..Len(InputPosts) |-> ClaimedTitle(InputPosts[i])]

PairwiseDistinct(s) == \A i, j \in 1..Len(s) : i # j => s[i] # s[j]

\* C12 Prefix invariant under any interleaving: with a fixed posts.json whose
\* resolved titles are pairwise distinct, a collection that starts absent
\* and positive numPosts on every request, in every reachable state
\* (overlapping requests, force=true and aborted requests included) the
\* originalTitle sequence of articles.json is a prefix of the input posts'
\* resolved-title sequence.  (Checked under SpecFixed.)
C12_PrefixInvariant ==
  PairwiseDistinct(InputTitles) =>
    IsPrefix(TitleSeq(Load(articlesFile)), InputTitles)

\* C12 witness: over an input of three posts, one request was aborted by a
\* generation failure, the other one runs with force=true, and the store
\* holds a single entry that a later write put in the place of an earlier
\* one (its timestamp is not the first).
C12_Witness ==
  /\ Len(InputPosts) = 3
  /\ Len(Load(articlesFile)) = 1
  /\ Load(articlesFile)[1].timestamp > 1
  /\ \E r1, r2 \in Requests :
       /\ r1 # r2
       /\ req[r1].pc = "done" /\ ~req[r1].response.success
       /\ req[r2].pc = "done" /\ req[r2].response.success
       /\ req[r2].forceRegenerate

=============================================================================
